---- MODULE Spec2Model ----
(***************************************************************************)
(* The membership view of one ifrit node: full view, live view, stored     *)
(* notes, per-ring accusations and accusation timers, driven by the        *)
(* evaluation kernel of core/handlers.go (evalCertificate, evalNote,       *)
(* evalAccusation) and by the protocol strategy of lib/node/ping.go        *)
(* (correct.Monitor, correct.Gossip).                                      *)
(*                                                                         *)
(* The view package (peer records, rings, timers) is not part of the       *)
(* sources at hand; its operations are modelled from the specification     *)
(* document and kept in a block of their own below.                        *)
(***************************************************************************)
EXTENDS Integers, FiniteSets, Sequences, TLC

\* ------------------------------------------------------------------------
\* Bounds
\* ------------------------------------------------------------------------
NumPeers == 2
NumRings == 2
MaxEpoch == 2
MaxSteps == 5
SpreadSteps == 2
ServeQueue == 2

Self  == 0
Peers == 1..NumPeers
Ids   == Peers \cup {Self}
Rings == 0..(NumRings - 1)
Epochs == 1..MaxEpoch
Nobody == -1

NoNote  == [epoch |-> 0, mask |-> {}, signer |-> Nobody]
NoTimer == [epoch |-> 0]
NoAcc   == [ring |-> -1, accuser |-> Nobody, epoch |-> 0, signer |-> Nobody]

\* A mask is the set of rings whose bit is set.
Masks == SUBSET Rings

\* A key other than id's, for forged signatures.
Forger(id) == IF id = Self THEN 1 ELSE Self

\* gossip.Note messages: signer is the key that produced the signature.
Notes == {n \in [id : Ids, epoch : Epochs, mask : Masks, signer : Ids] :
            n.signer \in {n.id, Forger(n.id)}}

\* gossip.Accusation messages.
Accusations == {a \in [accused : Ids, accuser : Ids, ring : Rings, epoch : Epochs, signer : Ids] :
                  a.signer \in {a.accuser, Forger(a.accuser)}}

\* x509 certificates as evalCertificate sees them.
NilCert == [id |-> Nobody, idLen |-> FALSE, caSigned |-> FALSE]
Certs   == [id : Ids, idLen : BOOLEAN, caSigned : BOOLEAN] \cup {NilCert}

VARIABLES view, last, steps, env
vars == <<view, last, steps, env>>

\* ------------------------------------------------------------------------
\* The view package, modelled from the specification document
\* ------------------------------------------------------------------------

\* Ordering key of a peer on a ring, H(ring || id); ties broken by id.
RingKey(r, id) == ((id * (2 * r + 1)) + r) % (NumPeers + 2)

Before(r, a, b) ==
    \/ RingKey(r, a) < RingKey(r, b)
    \/ RingKey(r, a) = RingKey(r, b) /\ a < b

\* Immediate predecessor of id among members, wrapping; id itself on a
\* ring of size one.
Predecessor(r, members, id) ==
    LET others == members \ {id}
        below  == {q \in others : Before(r, q, id)}
        pick(S) == CHOOSE q \in S : \A o \in S : o = q \/ Before(r, o, q)
    IN IF others = {} THEN id
       ELSE IF below # {} THEN pick(below) ELSE pick(others)

Successor(r, members, id) ==
    LET others == members \ {id}
        above  == {q \in others : Before(r, id, q)}
        pick(S) == CHOOSE q \in S : \A o \in S : o = q \/ Before(r, q, o)
    IN IF others = {} THEN id
       ELSE IF above # {} THEN pick(above) ELSE pick(others)

PeerExists(v, id) == id \in v.full
IsAlive(v, id) == id \in v.live
HasTimer(v, id) == v.timers[id] # NoTimer
PeerNote(v, id) == v.note[id]
AllAccusations(v, id) == v.accs[id]
IsAccused(v, id) == v.accs[id] # {}

RingAccusation(v, id, r) ==
    IF \E a \in v.accs[id] : a.ring = r
    THEN CHOOSE a \in v.accs[id] : a.ring = r
    ELSE NoAcc

AccEqual(acc, accuser, r, epoch) ==
    acc.accuser = accuser /\ acc.ring = r /\ acc.epoch = epoch

\* note.IsMoreRecent(other) / accusation.IsMoreRecent(other): the given
\* epoch is newer than the stored one.
IsMoreRecent(stored, other) == stored < other

NoteEqual(n, epoch) == n.epoch = epoch

IsRingDisabled(mask, r) == r \notin mask

\* At most one ring may be disabled.
ValidMask(mask) == mask \subseteq Rings /\ Cardinality(Rings \ mask) <= 1

\* The mask a peer is known by: of its stored note, or of the local note.
MaskOf(v, id) ==
    IF id = Self THEN Rings
    ELSE IF v.note[id] = NoNote THEN Rings ELSE v.note[id].mask

RingMembers(v, r) == {q \in v.full \cup {Self} : ~IsRingDisabled(MaskOf(v, q), r)}

ValidAccuser(v, accused, accuser, r) ==
    /\ accuser # accused
    /\ Predecessor(r, RingMembers(v, r) \cup {accused}, accused) = accuser

ShouldRebuttal(v, epoch, r) == epoch = v.selfEpoch /\ ~IsRingDisabled(Rings, r)

BumpEpoch(v) == [v EXCEPT !.selfEpoch = @ + 1]

AddFull(v, id) == [v EXCEPT !.full = @ \cup {id}]
AddLive(v, id) == [v EXCEPT !.live = @ \cup {id}]
RemoveLive(v, id) == [v EXCEPT !.live = @ \ {id}]

AddNote(v, id, mask, epoch, signer) ==
    [v EXCEPT !.note[id] = [epoch |-> epoch, mask |-> mask, signer |-> signer]]

\* As AddAccusation, but an accusation already held for the ring is kept.
AddAccusationKeepOld(v, id, accuser, epoch, mask, r, signer) ==
    [v EXCEPT !.accs[id] = @ \cup
        {[ring |-> r, accuser |-> accuser, epoch |-> epoch, signer |-> signer]}]

\* accusations[ring] = accusation; the mask copy handed over is never read
\* again and is not kept.
AddAccusation(v, id, accuser, epoch, mask, r, signer) ==
    [v EXCEPT !.accs[id] = {a \in @ : a.ring # r} \cup
        {[ring |-> r, accuser |-> accuser, epoch |-> epoch, signer |-> signer]}]

RemoveAccusation(v, id, a) == [v EXCEPT !.accs[id] = @ \ {a}]

\* The timer remembers the note it was opened under.
StartTimer(v, id, n, accuser) ==
    [v EXCEPT !.timers[id] = [epoch |-> n.epoch]]

DeleteTimeout(v, id) == [v EXCEPT !.timers[id] = NoTimer]

ResetPing(v, id) == [v EXCEPT !.nping[id] = 0]
IncrementPing(v, id) == [v EXCEPT !.nping[id] = @ + 1]

checkNoteSignature(n, id) == n.signer = id
checkAccusationSignature(a, accuser) == a.signer = accuser

Ok(v) == [v |-> v, err |-> "nil"]
Fail(v, e) == [v |-> v, err |-> e]

\* ------------------------------------------------------------------------
\* core/handlers.go: evalCertificate
\* ------------------------------------------------------------------------
evalCertificate(v, c) ==
    IF c = NilCert THEN Fail(v, "errNilCert")
    ELSE IF c.id = Self THEN Fail(v, "errSelfCert")
    ELSE IF ~c.idLen THEN Fail(v, "errInvalidId")
    ELSE IF ~c.caSigned THEN Fail(v, "errInvalidCaSignature")
    ELSE IF ~PeerExists(v, c.id) THEN Ok(AddFull(v, c.id))
    ELSE Ok(v)

\* ------------------------------------------------------------------------
\* core/handlers.go: evalNote
\* ------------------------------------------------------------------------

\* Lookup, epoch and mask checks that precede both branches.
NoteError(v, n) ==
    IF ~PeerExists(v, n.id) THEN "errNoPeer"
    ELSE IF PeerNote(v, n.id) # NoNote /\ ~IsMoreRecent(PeerNote(v, n.id).epoch, n.epoch)
         THEN "errOldNote"
    ELSE IF ~ValidMask(n.mask) THEN "errInvalidMask"
    ELSE "nil"

\* As evalNoteNotAccused, but the live view is left as it is.
evalNoteNotAccusedNoLive(v, n) ==
    LET note == PeerNote(v, n.id) IN
    IF note = NoNote \/ IsMoreRecent(note.epoch, n.epoch)
    THEN IF ~checkNoteSignature(n, n.id) THEN Fail(v, "errInvalidSignature")
         ELSE Ok(AddNote(v, n.id, n.mask, n.epoch, n.signer))
    ELSE Ok(v)

\* The peer has no accusation: store a more recent, correctly signed note.
evalNoteNotAccused(v, n) ==
    LET note == PeerNote(v, n.id) IN
    IF note = NoNote \/ IsMoreRecent(note.epoch, n.epoch)
    THEN IF ~checkNoteSignature(n, n.id) THEN Fail(v, "errInvalidSignature")
         ELSE LET v1 == AddNote(v, n.id, n.mask, n.epoch, n.signer)
              IN Ok(IF ~IsAlive(v1, n.id) THEN AddLive(v1, n.id) ELSE v1)
    ELSE Ok(v)

\* As Rebut, but an accusation of the note's own epoch is dropped as well.
RebutUpTo(v, id, epoch) ==
    [v EXCEPT !.accs[id] = {a \in @ : a.epoch > epoch}]

\* The loop that drops every accusation the note invalidates.
Rebut(v, id, epoch) ==
    [v EXCEPT !.accs[id] = {a \in @ : ~IsMoreRecent(a.epoch, epoch)}]

\* As evalNoteAccused, but each call drops one invalidated accusation only,
\* and the note is stored once none is left.
evalNoteAccusedOneByOne(v, n) ==
    IF ~checkNoteSignature(n, n.id) THEN Fail(v, "errInvalidSignature")
    ELSE
      LET old == {a \in AllAccusations(v, n.id) : IsMoreRecent(a.epoch, n.epoch)}
          first == CHOOSE a \in old : \A b \in old : a.ring <= b.ring
          v1 == IF old = {} THEN v ELSE RemoveAccusation(v, n.id, first)
          v2 == AddNote(v1, n.id, n.mask, n.epoch, n.signer)
          v3 == ResetPing(v2, n.id)
          v4 == IF HasTimer(v3, n.id) THEN DeleteTimeout(v3, n.id) ELSE v3
          v5 == IF ~IsAlive(v4, n.id) THEN AddLive(v4, n.id) ELSE v4
      IN Ok(IF ~IsAccused(v1, n.id) THEN v5 ELSE v1)

\* As evalNoteAccused, but the signature is verified after the loop that
\* drops the invalidated accusations.
evalNoteAccusedVerifyLate(v, n) ==
    LET note == PeerNote(v, n.id)
        v1 == Rebut(v, n.id, n.epoch)
        v2 == IF note = NoNote \/ IsMoreRecent(note.epoch, n.epoch)
              THEN AddNote(v1, n.id, n.mask, n.epoch, n.signer)
              ELSE v1
        v3 == ResetPing(v2, n.id)
        v4 == IF HasTimer(v3, n.id) THEN DeleteTimeout(v3, n.id) ELSE v3
        v5 == IF ~IsAlive(v4, n.id) THEN AddLive(v4, n.id) ELSE v4
    IN IF ~checkNoteSignature(n, n.id) THEN Fail(v1, "errInvalidSignature")
       ELSE Ok(IF ~IsAccused(v2, n.id) THEN v5 ELSE v2)

\* As evalNoteAccused, without the signature check.
evalNoteAccusedUnchecked(v, n) ==
    LET note == PeerNote(v, n.id)
        v1 == Rebut(v, n.id, n.epoch)
        v2 == IF note = NoNote \/ IsMoreRecent(note.epoch, n.epoch)
              THEN AddNote(v1, n.id, n.mask, n.epoch, n.signer)
              ELSE v1
        v3 == ResetPing(v2, n.id)
        v4 == IF HasTimer(v3, n.id) THEN DeleteTimeout(v3, n.id) ELSE v3
        v5 == IF ~IsAlive(v4, n.id) THEN AddLive(v4, n.id) ELSE v4
    IN Ok(IF ~IsAccused(v2, n.id) THEN v5 ELSE v2)

\* As evalNoteAccused, but the peer is put back into the live view whether
\* or not an accusation is left.
evalNoteAccusedAlwaysLive(v, n) ==
    IF ~checkNoteSignature(n, n.id) THEN Fail(v, "errInvalidSignature")
    ELSE
      LET note == PeerNote(v, n.id)
          v1 == Rebut(v, n.id, n.epoch)
          v2 == IF note = NoNote \/ IsMoreRecent(note.epoch, n.epoch)
                THEN AddNote(v1, n.id, n.mask, n.epoch, n.signer)
                ELSE v1
          v3 == IF ~IsAccused(v2, n.id)
                THEN (IF HasTimer(v2, n.id) THEN DeleteTimeout(ResetPing(v2, n.id), n.id)
                      ELSE ResetPing(v2, n.id))
                ELSE v2
      IN Ok(AddLive(v3, n.id))

\* The peer is accused: rebuttal.
evalNoteAccused(v, n) ==
    IF ~checkNoteSignature(n, n.id) THEN Fail(v, "errInvalidSignature")
    ELSE
      LET note == PeerNote(v, n.id)
          v1 == Rebut(v, n.id, n.epoch)
          v2 == IF note = NoNote \/ IsMoreRecent(note.epoch, n.epoch)
                THEN AddNote(v1, n.id, n.mask, n.epoch, n.signer)
                ELSE v1
          v3 == ResetPing(v2, n.id)
          v4 == IF HasTimer(v3, n.id) THEN DeleteTimeout(v3, n.id) ELSE v3
          v5 == IF ~IsAlive(v4, n.id) THEN AddLive(v4, n.id) ELSE v4
      IN Ok(IF ~IsAccused(v2, n.id) THEN v5 ELSE v2)

\* As evalNote, with the epoch comparison left out where the peer is not
\* accused: any correctly signed note with a valid mask is stored.
evalNoteAnyEpoch(v, n) ==
    IF ~PeerExists(v, n.id) THEN Fail(v, "errNoPeer")
    ELSE IF ~ValidMask(n.mask) THEN Fail(v, "errInvalidMask")
    ELSE IF AllAccusations(v, n.id) = {}
         THEN IF ~checkNoteSignature(n, n.id) THEN Fail(v, "errInvalidSignature")
              ELSE Ok(AddLive(AddNote(v, n.id, n.mask, n.epoch, n.signer), n.id))
    ELSE evalNoteAccused(v, n)

evalNote(v, n) ==
    IF NoteError(v, n) # "nil" THEN Fail(v, NoteError(v, n))
    ELSE IF AllAccusations(v, n.id) = {} THEN evalNoteNotAccused(v, n)
    ELSE evalNoteAccused(v, n)

\* ------------------------------------------------------------------------
\* core/handlers.go: evalAccusation
\* ------------------------------------------------------------------------

\* lib/node/ping.go, correct.Rebuttal: sign a note that carries the node's
\* current epoch and send it to the neighbours.  signed lists the epochs of
\* the notes the node has signed, the first one being the note it starts with.
Rebuttal(v) == [v EXCEPT !.signed = Append(@, v.selfEpoch)]

\* As SelfAccusation, but the epoch moves on without a call of Rebuttal.
SelfAccusationNoRebuttal(v, a) ==
    IF ShouldRebuttal(v, a.epoch, a.ring) THEN Ok(BumpEpoch(v))
    ELSE Fail(v, "errInvalidSelfAccusation")

\* As SelfAccusation, but every accusation about the local node is answered
\* with a rebuttal, whatever ShouldRebuttal would say.
SelfAccusationAlwaysRebut(v, a) ==
    Ok(Rebuttal(v))

\* Accusation about the local node.
SelfAccusation(v, a) ==
    IF ShouldRebuttal(v, a.epoch, a.ring) THEN Ok(Rebuttal(BumpEpoch(v)))
    ELSE Fail(v, "errInvalidSelfAccusation")

\* The same accusation is already stored on the ring.
IsDuplicate(v, a) ==
    LET acc == RingAccusation(v, a.accused, a.ring)
    IN acc # NoAcc /\ AccEqual(acc, a.accuser, a.ring, a.epoch)

\* As DuplicateAccusation, but the timer is opened for a peer that is not in
\* the live view as well.
DuplicateAccusationAnyPeer(v, a) ==
    Fail(IF ~HasTimer(v, a.accused)
         THEN StartTimer(v, a.accused, PeerNote(v, a.accused), a.accuser)
         ELSE v,
         "errAccAlreadyExists")

DuplicateAccusation(v, a) ==
    Fail(IF ~HasTimer(v, a.accused) /\ IsAlive(v, a.accused)
         THEN StartTimer(v, a.accused, PeerNote(v, a.accused), a.accuser)
         ELSE v,
         "errAccAlreadyExists")

\* As AccusationError, without the comparison of the accusation's epoch with
\* the epoch of the stored note.
AccusationErrorAnyEpoch(v, a) ==
    LET note == PeerNote(v, a.accused) IN
    IF note = NoNote THEN "errInvalidEpoch"
    ELSE IF IsRingDisabled(note.mask, a.ring) THEN "errDisabledRing"
    ELSE IF ~ValidAccuser(v, a.accused, a.accuser, a.ring) THEN "errInvalidAccuser"
    ELSE IF ~checkAccusationSignature(a, a.accuser) THEN "errInvalidSignature"
    ELSE "nil"

\* As AccusationError, without the ValidAccuser check.
AccusationErrorAnyAccuser(v, a) ==
    LET note == PeerNote(v, a.accused) IN
    IF ~(note # NoNote /\ NoteEqual(note, a.epoch)) THEN "errInvalidEpoch"
    ELSE IF IsRingDisabled(note.mask, a.ring) THEN "errDisabledRing"
    ELSE IF ~checkAccusationSignature(a, a.accuser) THEN "errInvalidSignature"
    ELSE "nil"

\* As AccusationError, without the signature check.
AccusationErrorUnsigned(v, a) ==
    LET note == PeerNote(v, a.accused) IN
    IF ~(note # NoNote /\ NoteEqual(note, a.epoch)) THEN "errInvalidEpoch"
    ELSE IF IsRingDisabled(note.mask, a.ring) THEN "errDisabledRing"
    ELSE IF ~ValidAccuser(v, a.accused, a.accuser, a.ring) THEN "errInvalidAccuser"
    ELSE "nil"

\* The checks on a new accusation, in the order of the code.
AccusationError(v, a) ==
    LET note == PeerNote(v, a.accused) IN
    IF ~(note # NoNote /\ NoteEqual(note, a.epoch)) THEN "errInvalidEpoch"
    ELSE IF IsRingDisabled(note.mask, a.ring) THEN "errDisabledRing"
    ELSE IF ~ValidAccuser(v, a.accused, a.accuser, a.ring) THEN "errInvalidAccuser"
    ELSE IF ~checkAccusationSignature(a, a.accuser) THEN "errInvalidSignature"
    ELSE "nil"

\* As StoreAccusation, but the timer of a live peer is opened anew each time.
StoreAccusationRestart(v, a) ==
    LET note == PeerNote(v, a.accused)
        v1 == AddAccusation(v, a.accused, a.accuser, a.epoch, note.mask, a.ring, a.signer)
    IN IF IsAlive(v1, a.accused)
       THEN StartTimer(v1, a.accused, PeerNote(v1, a.accused), a.accuser)
       ELSE v1

\* Store the accusation and open a timer for a live peer that has none.
StoreAccusation(v, a) ==
    LET note == PeerNote(v, a.accused)
        v1 == AddAccusation(v, a.accused, a.accuser, a.epoch, note.mask, a.ring, a.signer)
    IN IF ~HasTimer(v1, a.accused) /\ IsAlive(v1, a.accused)
       THEN StartTimer(v1, a.accused, PeerNote(v1, a.accused), a.accuser)
       ELSE v1

evalAccusation(v, a) ==
    IF a.accused = Self THEN SelfAccusation(v, a)
    ELSE IF IsDuplicate(v, a) THEN DuplicateAccusation(v, a)
    ELSE IF AccusationError(v, a) # "nil" THEN Fail(v, AccusationError(v, a))
    ELSE Ok(StoreAccusation(v, a))

\* mergeAccusations hands an accusation to evalAccusation only when accuser
\* and accused are known (or are the local node) and the accused has a note.
Mergeable(v, a) ==
    /\ a.accuser = Self \/ PeerExists(v, a.accuser)
    /\ a.accused = Self \/ (PeerExists(v, a.accused) /\ PeerNote(v, a.accused) # NoNote)

\* As mergeAccusation, storing the accusation without looking up accuser and
\* accused and without evaluating it.
mergeAccusationDirect(v, a) ==
    IF a.accused = Self THEN SelfAccusation(v, a)
    ELSE Ok(StoreAccusation(v, a))

\* One round of the loop of mergeAccusations: an accusation that is not
\* mergeable is skipped, any other one goes to evalAccusation.
mergeAccusation(v, a) ==
    IF Mergeable(v, a) THEN evalAccusation(v, a) ELSE Fail(v, "skipped")

\* ------------------------------------------------------------------------
\* lib/node/ping.go: the correct protocol strategy
\* ------------------------------------------------------------------------

\* pinger.ping: a peer that left three pings unanswered is dead and is not
\* pinged; the counter goes up before the send and back to zero on a pong
\* with a valid signature.  reply is what Send and the verification yield.
PingReplies == {"sendError", "invalidSignature", "pong"}

\* As ping, without the test that gives up on a dead peer.
pingAlwaysSends(v, dest, reply) ==
    IF reply = "sendError" THEN Fail(IncrementPing(v, dest), "errSend")
    ELSE IF reply = "invalidSignature" THEN Fail(IncrementPing(v, dest), "errInvalidPongSignature")
    ELSE Ok(ResetPing(IncrementPing(v, dest), dest))

ping(v, dest, reply) ==
    IF v.nping[dest] >= 3 THEN Fail(v, "errDead")
    ELSE IF reply = "sendError" THEN Fail(IncrementPing(v, dest), "errSend")
    ELSE IF reply = "invalidSignature" THEN Fail(IncrementPing(v, dest), "errInvalidPongSignature")
    ELSE Ok(ResetPing(IncrementPing(v, dest), dest))

\* The body of Monitor's loop once the ping of the successor has failed:
\* accuse it at the epoch after its note and open a timer if none exists.
MonitorAccuse(v, r, succ) ==
    LET peerNote == PeerNote(v, succ)
        v1 == AddAccusation(v, succ, Self, peerNote.epoch + 1, {}, r, Self)
    IN IF ~HasTimer(v1, succ) THEN StartTimer(v1, succ, peerNote, Nobody) ELSE v1

\* Monitor walks the ring map in the order the runtime yields it; failed is
\* the set of peers whose Monitor call returns an error.  A failed successor
\* without a note ends the whole walk.
RECURSIVE MonitorRings(_, _, _)
MonitorRings(v, order, failed) ==
    IF order = <<>> THEN v
    ELSE LET r == Head(order)
             succ == Successor(r, v.full \cup {Self}, Self)
         IN IF succ = Self \/ succ \notin failed \/ ~PeerExists(v, succ)
            THEN MonitorRings(v, Tail(order), failed)
            ELSE IF PeerNote(v, succ) = NoNote THEN v
            ELSE MonitorRings(MonitorAccuse(v, r, succ), Tail(order), failed)

RingOrders == {o \in [1..NumRings -> Rings] : \A i, j \in 1..NumRings : i # j => o[i] # o[j]}

\* As GossipCertificates, without the addViewPeer call.
GossipCertificatesLiveOnly(v, ids) ==
    [v EXCEPT !.live = @ \cup ids]

\* Gossip's handling of the certificates of a failed reply: every peer is
\* added to the view and to the live view.
GossipCertificates(v, ids) ==
    [v EXCEPT !.full = @ \cup ids, !.live = @ \cup ids]

\* ------------------------------------------------------------------------
\* Timeout manager, modelled from the specification document
\* ------------------------------------------------------------------------
\* As Expire, but the peer is marked dead without a look at its accusations
\* and its note.
ExpireUnchecked(v, id) ==
    RemoveLive(DeleteTimeout(v, id), id)

Expire(v, id) ==
    LET v1 == DeleteTimeout(v, id)
    IN IF IsAccused(v, id) /\ PeerNote(v, id).epoch = v.timers[id].epoch
       THEN RemoveLive(v1, id)
       ELSE v1

\* ------------------------------------------------------------------------
\* State machine
\* ------------------------------------------------------------------------
\* What the last operation was, on which peer, what it returned, and how the
\* peer stood in the view before it.
Before0 == [live |-> FALSE, accused |-> 0, timer |-> FALSE, epoch |-> 0]

PreOf(v, id) ==
    IF id \in DOMAIN v.note
    THEN [live |-> IsAlive(v, id), accused |-> Cardinality(AllAccusations(v, id)),
          timer |-> HasTimer(v, id), epoch |-> PeerNote(v, id).epoch]
    ELSE Before0

Done(op, id, err) == [op |-> op, id |-> id, err |-> err, pre |-> PreOf(view, id)]

\* Behaviours are explored up to MaxSteps operations.
Tick == steps < MaxSteps /\ steps' = steps + 1 /\ env' = env

\* The view of a node that knows the peers ps and has heard of none of them.
EmptyView(ps) ==
    [full |-> {}, live |-> {},
     note |-> [p \in ps |-> NoNote],
     accs |-> [p \in ps |-> {}],
     timers |-> [p \in ps |-> NoTimer],
     nping |-> [p \in ps |-> 0],
     selfEpoch |-> 1,
     signed |-> <<1>>]

NoLast == [op |-> "init", id |-> Nobody, err |-> "nil", pre |-> Before0]

\* Nothing besides the local node's view is part of the run.
NoEnv == [kind |-> "none"]

Init ==
    /\ view = EmptyView(Peers)
    /\ last = NoLast
    /\ steps = 0
    /\ env = NoEnv

EvalCertificate ==
    \E c \in Certs :
        /\ Tick
        /\ view' = evalCertificate(view, c).v
        /\ last' = Done("evalCertificate", c.id, evalCertificate(view, c).err)

EvalNote ==
    \E n \in Notes :
        /\ Tick
        /\ n.id # Self
        /\ view' = evalNote(view, n).v
        /\ last' = Done("evalNote", n.id, evalNote(view, n).err)

EvalAccusation ==
    \E a \in Accusations :
        /\ Tick
        /\ a.accused = Self /\ ShouldRebuttal(view, a.epoch, a.ring) => view.selfEpoch < MaxEpoch
        /\ view' = mergeAccusation(view, a).v
        /\ last' = Done("evalAccusation", a.accused, mergeAccusation(view, a).err)

Monitor ==
    \E order \in RingOrders, failed \in SUBSET Peers :
        /\ Tick
        /\ view' = MonitorRings(view, order, failed)
        /\ last' = Done("Monitor", Nobody, "nil")

Gossip ==
    \E ids \in SUBSET Peers :
        /\ Tick
        /\ view' = GossipCertificates(view, ids)
        /\ last' = Done("Gossip", Nobody, "nil")

Ping ==
    \E dest \in Peers, reply \in PingReplies :
        /\ Tick
        /\ PeerExists(view, dest)
        /\ view' = ping(view, dest, reply).v
        /\ last' = Done("ping", dest, ping(view, dest, reply).err)

Timeout ==
    \E id \in Peers :
        /\ Tick
        /\ HasTimer(view, id)
        /\ view' = Expire(view, id)
        /\ last' = Done("Timeout", id, "nil")

Next ==
    \/ EvalCertificate
    \/ EvalNote
    \/ EvalAccusation
    \/ Monitor
    \/ Gossip
    \/ Ping
    \/ Timeout

Spec == Init /\ [][Next]_vars

\* ------------------------------------------------------------------------
\* lib/node/ping.go: the spamAccusations strategy, seen by a correct node
\* ------------------------------------------------------------------------
\* The note a spam node signs: its id and epoch, no mask.
SpamNote(s, epoch) == [id |-> s, epoch |-> epoch, mask |-> {}, signer |-> s]

\* createFalseAccusations: for every peer of which the spam node s holds a
\* note (known gives the epoch it holds, 0 for none) an accusation by s with
\* that epoch + 1, signed by s; the ring number is left at its zero value.
createFalseAccusations(s, known) ==
    {[accused |-> p, accuser |-> s, ring |-> 0, epoch |-> known[p] + 1, signer |-> s] :
        p \in {q \in DOMAIN known : known[q] > 0}}

\* mergeAccusations over the accusations of one message.
RECURSIVE mergeAccusations(_, _)
mergeAccusations(v, accs) ==
    IF accs = {} THEN v
    ELSE LET a == CHOOSE x \in accs : \A y \in accs : x.accused <= y.accused
         IN mergeAccusations(mergeAccusation(v, a).v, accs \ {a})

\* mergeNotes for one note: a note of the local node is skipped.
mergeNote(v, n) == IF n.id = Self THEN v ELSE evalNote(v, n).v

\* The spam node of the run.
Spammer == env.spammer

\* The local node merges what the spam node sent: its note, then its
\* accusations.
SpamGossip ==
    \E known \in [Ids \ {Spammer} -> 0..MaxEpoch], epoch \in Epochs :
        /\ Tick
        /\ PeerExists(view, Spammer)
        /\ known[Self] + 1 = view.selfEpoch => view.selfEpoch < MaxEpoch
        /\ view' = mergeAccusations(mergeNote(view, SpamNote(Spammer, epoch)),
                                    createFalseAccusations(Spammer, known))
        /\ last' = Done("SpamGossip", Spammer, "nil")

SpamInit ==
    /\ view = EmptyView(Peers)
    /\ last = NoLast
    /\ steps = 0
    /\ \E s \in Peers : env = [kind |-> "spam", spammer |-> s]

\* Every other node is correct and answers its pings, so the accusations of
\* the run are the fabricated ones.
SpamNext ==
    \/ EvalCertificate
    \/ EvalNote
    \/ Gossip
    \/ SpamGossip
    \/ Timeout

SpecSpam == SpamInit /\ [][SpamNext]_vars

\* ------------------------------------------------------------------------
\* The local node among other nodes: a crashed peer and responsive peers
\* ------------------------------------------------------------------------
\* The network has one node more than the local node's bounded view needs,
\* so that some peer is monitored by other nodes only.
NetPeers == 1..(NumPeers + 1)
NetMembers == NetPeers \cup {Self}

\* Node q pings x in its Monitor: x is q's successor on some ring.
Monitors(q, x) == \E r \in Rings : Successor(r, NetMembers, q) = x

\* The peer that has stopped responding; the local node is not its
\* predecessor on any ring.
Crashed ==
    IF \E x \in NetPeers : ~Monitors(Self, x)
    THEN CHOOSE x \in NetPeers : ~Monitors(Self, x)
    ELSE NumPeers + 1

Responsive == NetPeers \ {Crashed}

\* Epochs of the responsive peers stay within this bound.
NetMaxEpoch == MaxEpoch + 1

\* Every node knows every other one, holds its first note and has it live.
NetView ==
    [EmptyView(NetPeers) EXCEPT
        !.full = NetPeers, !.live = NetPeers,
        !.note = [p \in NetPeers |-> [epoch |-> 1, mask |-> Rings, signer |-> p]]]

\* env.epoch[y] is the epoch responsive peer y itself is at.
NetInit ==
    /\ view = NetView
    /\ last = NoLast
    /\ steps = 0
    /\ env = [kind |-> "net", epoch |-> [y \in Responsive |-> 1]]

\* The accusation correct.Monitor of node accuser builds for its successor on
\* ring r when the ping fails: the epoch after the successor's note.
MonitorAccusation(accuser, accused, noteEpoch, r) ==
    [accused |-> accused, accuser |-> accuser, ring |-> r,
     epoch |-> noteEpoch + 1, signer |-> accuser]

\* The note correct.Rebuttal signs and sends: id and epoch, no mask.
RebuttalNote(id, epoch) == [id |-> id, epoch |-> epoch, mask |-> {}, signer |-> id]

\* The local node's Monitor round.  The crashed peer never answers; the
\* ping of one responsive peer may be lost as well.
NetMonitor ==
    \E order \in RingOrders, lost \in {{}} \cup {{y} : y \in Responsive} :
        /\ \A y \in lost : PeerNote(view, y).epoch + 2 <= NetMaxEpoch
        /\ view' = MonitorRings(view, order, lost \cup {Crashed})
        /\ last' = Done("Monitor", Nobody, "nil")
        /\ UNCHANGED <<steps, env>>

\* A responsive neighbour q that monitors the crashed peer on ring r answers
\* the local node's gossip with the accusation its own Monitor made; the
\* local node merges it.
NetReply ==
    \E q \in Responsive, r \in Rings :
        /\ Successor(r, NetMembers, q) = Crashed
        /\ LET a == MonitorAccusation(q, Crashed, PeerNote(view, Crashed).epoch, r)
           IN /\ view' = mergeAccusation(view, a).v
              /\ last' = Done("evalAccusation", Crashed, mergeAccusation(view, a).err)
        /\ UNCHANGED <<steps, env>>

\* A responsive peer gossips its current note to the local node.
NetNoteOf(y) ==
    LET n == [id |-> y, epoch |-> env.epoch[y], mask |-> Rings, signer |-> y]
    IN /\ view' = evalNote(view, n).v
       /\ last' = Done("evalNote", y, evalNote(view, n).err)
       /\ UNCHANGED <<steps, env>>

NetNote == \E y \in Responsive : NetNoteOf(y)

\* A responsive peer y is handed an accusation the local node holds against
\* it and runs evalAccusation on it: when ShouldRebuttal agrees, y moves to
\* its next epoch and its Rebuttal sends a note that the local node
\* evaluates.
NetAccusedOf(y) ==
    \E a \in AllAccusations(view, y) :
        LET res == SelfAccusation([selfEpoch |-> env.epoch[y], signed |-> <<>>], a)
        IN /\ res.err = "nil" => env.epoch[y] < NetMaxEpoch
           /\ env' = [env EXCEPT !.epoch[y] = res.v.selfEpoch]
           /\ view' = IF res.err = "nil"
                      THEN evalNote(view, RebuttalNote(y, res.v.selfEpoch)).v
                      ELSE view
           /\ last' = Done("Rebuttal", y, res.err)
           /\ UNCHANGED steps

NetAccused == \E y \in Responsive : NetAccusedOf(y)

\* An accusation against a responsive peer that carries the epoch of the
\* peer's note reaches the local node by gossip.
NetInject ==
    \E y \in Responsive, q \in NetMembers, r \in Rings :
        LET a == [accused |-> y, accuser |-> q, ring |-> r,
                  epoch |-> PeerNote(view, y).epoch, signer |-> q]
        IN /\ PeerNote(view, y).epoch + 1 <= NetMaxEpoch
           /\ view' = mergeAccusation(view, a).v
           /\ last' = Done("evalAccusation", y, mergeAccusation(view, a).err)
           /\ UNCHANGED <<steps, env>>

NetTimeoutOf(id) ==
    /\ HasTimer(view, id)
    /\ view' = Expire(view, id)
    /\ last' = Done("Timeout", id, "nil")
    /\ UNCHANGED <<steps, env>>

NetTimeout == \E id \in NetPeers : NetTimeoutOf(id)

NetNext ==
    \/ NetMonitor
    \/ NetReply
    \/ NetNote
    \/ NetAccused
    \/ NetInject
    \/ NetTimeout

\* The gossip ticker, the timeout sweeper and every peer's own handlers keep
\* running; a lost ping and an injected accusation need not happen again.
SpecNet ==
    /\ NetInit /\ [][NetNext]_vars
    /\ WF_vars(NetReply)
    /\ \A y \in Responsive : WF_vars(NetNoteOf(y)) /\ WF_vars(NetAccusedOf(y))
    /\ \A id \in NetPeers : WF_vars(NetTimeoutOf(id))

\* ------------------------------------------------------------------------
\* core/handlers.go: Spread and mergeViews
\* ------------------------------------------------------------------------
\* A gossip.StateResponse: the ids whose certificate it carries, the ids whose
\* note it carries, and the accusations, each with the peer it accuses.  A
\* call that fails returns no response at all.
NilReply == [nil |-> TRUE, certs |-> {}, notes |-> {}, accs |-> {}]
EmptyReply == [nil |-> FALSE, certs |-> {}, notes |-> {}, accs |-> {}]

ReplyAccusations(v, ps) ==
    UNION {{[accused |-> p, acc |-> a] : a \in AllAccusations(v, p)} : p \in ps}

\* The map of existing hosts of a request: peer id to epoch.  NoHosts is the
\* nil map of a message that is only a rebuttal.
NoHosts == [x \in {Nobody} |-> 0]

\* The view package, from the specification document: id is predecessor or
\* successor of the local node on a ring that both masks enable.
ShouldBeNeighbour(v, id) ==
    \E r \in Rings :
        /\ id \in RingMembers(v, r) \ {Self}
        /\ \/ Predecessor(r, RingMembers(v, r), Self) = id
           \/ Successor(r, RingMembers(v, r), Self) = id

\* The view package, from the specification document: the ring neighbours of
\* id among the peers of the view, the local node and id left out.
FindNeighbours(v, id) ==
    {q \in v.full \ {id} :
        \E r \in Rings :
            \/ Predecessor(r, RingMembers(v, r) \cup {id}, id) = q
            \/ Successor(r, RingMembers(v, r) \cup {id}, id) = q}

\* mergeViews: what the requester lacks, by its map of hosts.
mergeViews(v, given) ==
    [nil |-> FALSE,
     certs |-> {p \in v.full : p \notin DOMAIN given},
     notes |-> {p \in v.full : /\ PeerNote(v, p) # NoNote
                               /\ \/ p \notin DOMAIN given
                                  \/ IsMoreRecent(PeerNote(v, p).epoch, given[p])}
               \cup {q \in {Self} : Self \notin DOMAIN given \/ IsMoreRecent(v.selfEpoch, given[Self])},
     accs |-> ReplyAccusations(v, v.full)]

SpreadResult(v, err, reply) == [v |-> v, err |-> err, reply |-> reply]

\* Case A: the sender should be a neighbour.
SpreadNeighbour(v, c, n, given) ==
    LET ec == evalCertificate(v, c)
        v2 == evalNote(ec.v, n).v
    IN IF ec.err # "nil" THEN SpreadResult(v, ec.err, NilReply)
       ELSE SpreadResult(v2, "nil", IF given = NoHosts THEN EmptyReply ELSE mergeViews(v2, given))

\* As SpreadObserved, but a sender that is accused gets the error as well.
SpreadObservedAlwaysError(v, c, n) ==
    SpreadResult(evalNote(v, n).v, "errNotMyNeighbour", NilReply)

\* Case B: the sender is in the view and should not be a neighbour.
SpreadObserved(v, c, n) ==
    LET v2 == evalNote(v, n).v
    IN IF ~IsAccused(v, c.id)
       THEN SpreadResult(v2, "errNotMyNeighbour", NilReply)
       ELSE SpreadResult(v2, "nil", [EmptyReply EXCEPT !.accs = ReplyAccusations(v2, {c.id})])

\* Case C: the sender is not in the view.
SpreadUnknown(v, c, n) ==
    LET ec == evalCertificate(v, c)
        v2 == evalNote(ec.v, n).v
        nb == FindNeighbours(v2, c.id)
    IN IF ec.err # "nil" THEN SpreadResult(v, ec.err, NilReply)
       ELSE SpreadResult(v2, "nil",
                [nil |-> FALSE,
                 certs |-> {Self} \cup nb,
                 notes |-> {Self} \cup {q \in nb : PeerNote(v2, q) # NoNote},
                 accs |-> {}])

\* Spread for a request of the node with certificate c that carries the note
\* n and the map given.
Spread(v, c, n, given) ==
    IF ShouldBeNeighbour(v, c.id) THEN SpreadNeighbour(v, c, n, given)
    ELSE IF PeerExists(v, c.id) THEN SpreadObserved(v, c, n)
    ELSE SpreadUnknown(v, c, n)

\* The requests of the run: the certificate of a peer, a note of that peer
\* with every ring enabled, and a map of hosts: none, an empty one, or one
\* that reports the same epoch for every member.
SpreadCerts == [id : NetPeers, idLen : {TRUE}, caSigned : BOOLEAN]
SpreadNotes == {n \in [id : NetPeers, epoch : Epochs, mask : {Rings}, signer : NetMembers] :
                  n.signer \in {n.id, Forger(n.id)}}
SpreadHosts ==
    {NoHosts} \cup {[x \in S |-> e] : S \in {{}, NetMembers}, e \in Epochs}

\* The view with the peers of known in it, each with its first note.
SpreadView(known) ==
    [EmptyView(NetPeers) EXCEPT
        !.full = known, !.live = known,
        !.note = [p \in NetPeers |-> IF p \in known
                                     THEN [epoch |-> 1, mask |-> Rings, signer |-> p]
                                     ELSE NoNote]]

\* env holds the last call of Spread: its request, the view it found, and
\* what it returned.
SpreadInit ==
    /\ \E known \in SUBSET NetPeers : view = SpreadView(known)
    /\ last = NoLast
    /\ steps = 0
    /\ env = [kind |-> "spread", err |-> "nil", reply |-> NilReply,
              c |-> NilCert, n |-> NoNote, given |-> NoHosts, before |-> SpreadView({})]

SpreadCall ==
    /\ steps < SpreadSteps
    /\ steps' = steps + 1
    /\ \E c \in SpreadCerts, given \in SpreadHosts :
         \E n \in {m \in SpreadNotes : m.id = c.id} :
            LET res == Spread(view, c, n, given)
            IN /\ view' = res.v
               /\ env' = [kind |-> "spread", err |-> res.err, reply |-> res.reply,
                          c |-> c, n |-> n, given |-> given, before |-> view]
               /\ last' = Done("Spread", c.id, res.err)

\* An accusation reaches the node in a reply to its own gossip: made by the
\* ring predecessor of a peer of the view, about the note stored for it.
SpreadAccusation ==
    \E y \in view.full, r \in Rings :
        LET q == Predecessor(r, RingMembers(view, r) \cup {y}, y)
            a == [accused |-> y, accuser |-> q, ring |-> r,
                  epoch |-> PeerNote(view, y).epoch, signer |-> q]
        IN /\ steps < SpreadSteps
           /\ steps' = steps + 1
           /\ env' = env
           /\ view' = mergeAccusation(view, a).v
           /\ last' = Done("evalAccusation", y, mergeAccusation(view, a).err)

SpreadNext ==
    \/ SpreadCall
    \/ SpreadAccusation

SpecSpread == SpreadInit /\ [][SpreadNext]_vars

\* ------------------------------------------------------------------------
\* lib/udp/udp.go and lib/node/ping.go: the ping server and its shutdown
\* ------------------------------------------------------------------------
\* env holds the position of Server.Serve (pc), the address of the datagram
\* it has in hand (cur), the datagrams that wait in the socket (queue), the
\* exit channel, the socket, and the position of pinger.shutdown (sd).
\* Serve runs in a goroutine of its own; shutdown is called by the
\* application at any time, or never.
ServeInit ==
    /\ view = EmptyView(Peers)
    /\ last = NoLast
    /\ steps = 0
    /\ env = [kind |-> "serve", pc |-> "select", cur |-> Nobody, queue |-> <<>>,
              exitChan |-> "open", conn |-> "open", sd |-> "idle"]

\* As Shutdown, but the socket is left open.
ShutdownKeepsSocket(e) == e

\* Server.Shutdown: conn.Close(); the datagrams that wait are lost.
Shutdown(e) == [e EXCEPT !.conn = "closed", !.queue = <<>>]

\* The select at the head of Serve's loop: the exit case when the channel is
\* closed, the default case otherwise.
ServeSelect ==
    /\ env.pc = "select"
    /\ env' = [env EXCEPT !.pc = IF env.exitChan = "closed" THEN "returned" ELSE "read"]
    /\ last' = Done("select", Nobody, "nil")
    /\ UNCHANGED <<view, steps>>

\* conn.ReadFrom blocks until a datagram waits or the socket is closed; on
\* an error the loop goes on.
ServeReadFrom ==
    /\ env.pc = "read"
    /\ \/ /\ env.conn = "closed"
          /\ env' = [env EXCEPT !.pc = "select"]
          /\ last' = Done("ReadFrom", Nobody, "errClosed")
       \/ /\ env.conn = "open"
          /\ env.queue # <<>>
          /\ env' = [env EXCEPT !.pc = "sign", !.cur = Head(env.queue), !.queue = Tail(env.queue)]
          /\ last' = Done("ReadFrom", Head(env.queue), "nil")
    /\ UNCHANGED <<view, steps>>

\* signMsg, which is pinger.signPong: the pong, or an error.
ServeSignMsg ==
    /\ env.pc = "sign"
    /\ \E ok \in BOOLEAN :
         /\ env' = IF ok THEN [env EXCEPT !.pc = "write"]
                   ELSE [env EXCEPT !.pc = "select", !.cur = Nobody]
         /\ last' = Done("signMsg", env.cur, IF ok THEN "nil" ELSE "errSign")
    /\ UNCHANGED <<view, steps>>

\* conn.WriteTo: the pong leaves unless the socket is closed.
ServeWriteTo ==
    /\ env.pc = "write"
    /\ env' = [env EXCEPT !.pc = "select", !.cur = Nobody]
    /\ last' = Done("WriteTo", env.cur, IF env.conn = "open" THEN "nil" ELSE "errClosed")
    /\ UNCHANGED <<view, steps>>

\* A ping of some peer reaches the socket.
ServeArrive ==
    \E a \in Peers :
        /\ env.conn = "open"
        /\ Len(env.queue) < ServeQueue
        /\ env' = [env EXCEPT !.queue = Append(@, a)]
        /\ last' = Done("arrive", a, "nil")
        /\ UNCHANGED <<view, steps>>

\* pinger.shutdown, first statement: close(p.exitChan).
ShutdownExit ==
    /\ env.sd = "idle"
    /\ env' = [env EXCEPT !.exitChan = "closed", !.sd = "closing"]
    /\ last' = Done("close", Nobody, "nil")
    /\ UNCHANGED <<view, steps>>

\* pinger.shutdown, second statement: p.Shutdown().
ShutdownSocket ==
    /\ env.sd = "closing"
    /\ env' = [Shutdown(env) EXCEPT !.sd = "done"]
    /\ last' = Done("Shutdown", Nobody, "nil")
    /\ UNCHANGED <<view, steps>>

ServeNext ==
    \/ ServeSelect
    \/ ServeReadFrom
    \/ ServeSignMsg
    \/ ServeWriteTo
    \/ ServeArrive
    \/ ShutdownExit
    \/ ShutdownSocket

\* The goroutine of Serve and the caller of shutdown keep running; pings
\* arrive as they please and shutdown need not be called at all.
SpecServe ==
    /\ ServeInit
    /\ [][ServeNext]_vars
    /\ WF_vars(ServeSelect)
    /\ WF_vars(ServeReadFrom)
    /\ WF_vars(ServeSignMsg)
    /\ WF_vars(ServeWriteTo)
    /\ WF_vars(ShutdownSocket)

\* ------------------------------------------------------------------------
\* core/handlers.go: evalAccusation and evalNote running in parallel
\* ------------------------------------------------------------------------
\* Two RPC handlers work on the record of peer RacePeer at the same time, one
\* in evalAccusation with accusation env.a, one in evalNote with note env.n.
\* The handlers take no lock of their own; each call of a method of the view
\* or of the peer record is one step.  env.apc and env.npc say where each
\* handler stands, env.aerr and env.nerr what it returned.
RacePeer == 1

\* The view when the two calls arrive: the peer's certificate and its first
\* note have been evaluated.
RaceView ==
    LET v1 == evalCertificate(EmptyView(Peers), [id |-> RacePeer, idLen |-> TRUE, caSigned |-> TRUE]).v
    IN evalNote(v1, [id |-> RacePeer, epoch |-> 1, mask |-> Rings, signer |-> RacePeer]).v

RaceInit ==
    /\ view = RaceView
    /\ last = NoLast
    /\ steps = 0
    /\ \E a \in Accusations, n \in Notes :
           /\ a.accused = RacePeer /\ n.id = RacePeer
           /\ env = [kind |-> "race", a |-> a, n |-> n,
                     apc |-> "check", aerr |-> "nil", amask |-> {},
                     npc |-> "check", nerr |-> "nil", naccs |-> {}]

\* evalAccusation up to its first write: the duplicate test, then the checks
\* on a new accusation, which also pick the mask of the note they read.
AccCheck ==
    /\ env.apc = "check"
    /\ env' = IF ~Mergeable(view, env.a)
              THEN [env EXCEPT !.apc = "done", !.aerr = "skipped"]
              ELSE IF IsDuplicate(view, env.a)
              THEN [env EXCEPT !.apc = "timer", !.aerr = "errAccAlreadyExists"]
              ELSE IF AccusationError(view, env.a) # "nil"
              THEN [env EXCEPT !.apc = "done", !.aerr = AccusationError(view, env.a)]
              ELSE [env EXCEPT !.apc = "add", !.amask = PeerNote(view, env.a.accused).mask]
    /\ UNCHANGED <<view, last, steps>>

\* p.AddAccusation
AccAdd ==
    /\ env.apc = "add"
    /\ view' = AddAccusation(view, env.a.accused, env.a.accuser, env.a.epoch,
                             env.amask, env.a.ring, env.a.signer)
    /\ env' = [env EXCEPT !.apc = "timer"]
    /\ UNCHANGED <<last, steps>>

\* IsAlive, HasTimer and StartTimer, after the insertion or for a duplicate.
AccTimer ==
    /\ env.apc = "timer"
    /\ view' = IF ~HasTimer(view, env.a.accused) /\ IsAlive(view, env.a.accused)
               THEN StartTimer(view, env.a.accused, PeerNote(view, env.a.accused), env.a.accuser)
               ELSE view
    /\ env' = [env EXCEPT !.apc = "done"]
    /\ UNCHANGED <<last, steps>>

\* evalNote up to its first write: lookup, epoch and mask checks, the
\* accusations it will loop over, the signature.
NoteCheck ==
    /\ env.npc = "check"
    /\ env' = IF NoteError(view, env.n) # "nil"
              THEN [env EXCEPT !.npc = "done", !.nerr = NoteError(view, env.n)]
              ELSE IF ~checkNoteSignature(env.n, env.n.id)
              THEN [env EXCEPT !.npc = "done", !.nerr = "errInvalidSignature"]
              ELSE IF AllAccusations(view, env.n.id) = {}
              THEN [env EXCEPT !.npc = "store"]
              ELSE [env EXCEPT !.npc = "remove", !.naccs = AllAccusations(view, env.n.id)]
    /\ UNCHANGED <<view, last, steps>>

\* The loop over the accusations read before: p.RemoveAccusation for each
\* one the note invalidates.
NoteRemove ==
    /\ env.npc = "remove"
    /\ view' = [view EXCEPT !.accs[env.n.id] =
                   @ \ {a \in env.naccs : IsMoreRecent(a.epoch, env.n.epoch)}]
    /\ env' = [env EXCEPT !.npc = "store"]
    /\ UNCHANGED <<last, steps>>

\* p.AddNote; the note read at the start was older than the incoming one.
NoteStore ==
    /\ env.npc = "store"
    /\ view' = AddNote(view, env.n.id, env.n.mask, env.n.epoch, env.n.signer)
    /\ env' = [env EXCEPT !.npc = IF env.naccs = {} THEN "live" ELSE "revive"]
    /\ UNCHANGED <<last, steps>>

\* The peer had no accusation: IsAlive and AddLive.
NoteLive ==
    /\ env.npc = "live"
    /\ view' = IF ~IsAlive(view, env.n.id) THEN AddLive(view, env.n.id) ELSE view
    /\ env' = [env EXCEPT !.npc = "done"]
    /\ UNCHANGED <<last, steps>>

\* The peer had accusations: when IsAccused now says none is left, ResetPing,
\* DeleteTimeout and AddLive.
NoteRevive ==
    /\ env.npc = "revive"
    /\ view' = IF ~IsAccused(view, env.n.id)
               THEN LET v3 == ResetPing(view, env.n.id)
                        v4 == IF HasTimer(v3, env.n.id) THEN DeleteTimeout(v3, env.n.id) ELSE v3
                    IN IF ~IsAlive(v4, env.n.id) THEN AddLive(v4, env.n.id) ELSE v4
               ELSE view
    /\ env' = [env EXCEPT !.npc = "done"]
    /\ UNCHANGED <<last, steps>>

RaceNext ==
    \/ AccCheck
    \/ AccAdd
    \/ AccTimer
    \/ NoteCheck
    \/ NoteRemove
    \/ NoteStore
    \/ NoteLive
    \/ NoteRevive

SpecRace == RaceInit /\ [][RaceNext]_vars

\* No call is in progress.
Quiescent == env.kind = "race" => (env.apc = "done" /\ env.npc = "done")

\* ------------------------------------------------------------------------
\* node/handlers_test.go, lib/node/ping.go: the test suite's fixtures
\* ------------------------------------------------------------------------
\* TestInvalidRebuttal builds its accusation FixtureGap epochs above the note
\* of the fresh peer.
FixtureGap == 2

\* newTestPeer: a peer with a signed note of epoch 1 and every ring enabled.
newTestPeer(v, id) == AddNote(v, id, Rings, 1, id)

\* setAccusation as the tests call it: the accusation goes into the peer
\* record as it is, only its epoch is set.
setAccusation(v, id, epoch) ==
    AddAccusation(v, id, Nobody, epoch, PeerNote(v, id).mask, 0, Nobody)

addViewPeer(v, id) == AddFull(v, id)

\* The suite after SetupTest and the first lines of a test: one fresh peer
\* in the view, accused gap epochs above its note when gap is not zero.
FixtureView(id, gap) ==
    LET v1 == newTestPeer(EmptyView(Peers), id)
        v2 == IF gap = 0 THEN v1 ELSE setAccusation(v1, id, PeerNote(v1, id).epoch + gap)
    IN addViewPeer(v2, id)

FixtureInit ==
    /\ \E id \in Peers, gap \in 0..FixtureGap : view = FixtureView(id, gap)
    /\ last = NoLast
    /\ steps = 0
    /\ env = NoEnv

\* The tests then call evalNote and evalAccusation.
FixtureNext ==
    \/ EvalNote
    \/ EvalAccusation

SpecFixture == FixtureInit /\ [][FixtureNext]_vars

\* ------------------------------------------------------------------------
\* Properties
\* ------------------------------------------------------------------------

\* C1 (as stated): a peer in the live view has no stored accusation, and a
\* peer with a stored accusation is not in the live view, also right after
\* evalAccusation has stored an accusation.
C1_LiveHasNoAccusation ==
    (last.op = "evalAccusation" /\ last.err = "nil" /\ last.id \in Peers) =>
        \A p \in Peers : ~(IsAlive(view, p) /\ IsAccused(view, p))

\* C1 (amended): a peer can be live while accused; what holds is that
\* evalNote puts a peer into the live view only when no accusation against
\* it is left.
C1_NoteRevivesOnlyUnaccused ==
    [][last'.op = "evalNote" =>
          \A p \in view'.live \ view.live : ~IsAccused(view', p)]_vars

\* A rebuttal has brought an accused peer that had left the live view back.
C1_Witness ==
    /\ last.op = "evalNote" /\ last.err = "nil"
    /\ last.pre.accused > 0 /\ ~last.pre.live
    /\ IsAlive(view, last.id) /\ ~IsAccused(view, last.id)

\* C2: the live view is a subset of the full view.
C2_LiveSubsetOfFull == view.live \subseteq view.full

\* Gossip has put a peer it only has a certificate of into the live view.
C2_Witness ==
    /\ last.op = "Gossip"
    /\ \E p \in view.live : PeerNote(view, p) = NoNote /\ p \in view.full

\* Every accusation stored in v has, in v, the accuser as immediate
\* predecessor of the accused on its ring, its ring enabled in the accused's
\* mask, and a signature of the accuser.
StoredAccusationsValid(v) ==
    \A p \in Peers : \A a \in AllAccusations(v, p) :
        /\ ValidAccuser(v, p, a.accuser, a.ring)
        /\ ~IsRingDisabled(MaskOf(v, p), a.ring)
        /\ checkAccusationSignature(a, a.accuser)

C4_EpochNeverDecreases ==
    [][\A p \in Peers : PeerNote(view', p).epoch >= PeerNote(view, p).epoch]_vars

\* A note older than the stored one has been turned down.
C4_Witness ==
    /\ last.op = "evalNote" /\ last.err = "errOldNote"
    /\ last.id \in Peers /\ PeerNote(view, last.id).epoch > 1

\* C5: applying evalNote a second time with the same note changes nothing.
C5_EvalNoteIdempotent ==
    \A n \in Notes : evalNote(evalNote(view, n).v, n).v = evalNote(view, n).v

\* A note has been accepted for a peer accused on two rings and has left
\* it accused.
C5_Witness ==
    /\ last.op = "evalNote" /\ last.err = "nil"
    /\ last.pre.accused = 2 /\ IsAccused(view, last.id)

\* C6: an accepted note for an accused peer removes exactly the accusations
\* of an epoch below the note's; when none is left the timer is gone, the
\* peer is live and the note is stored.
C6_RebuttalRemovesExactlyOlder ==
    \A n \in Notes :
        (n.id \in Peers /\ IsAccused(view, n.id) /\ evalNote(view, n).err = "nil") =>
            LET after == evalNote(view, n).v IN
            /\ AllAccusations(after, n.id) =
                  {a \in AllAccusations(view, n.id) : a.epoch >= n.epoch}
            /\ ~IsAccused(after, n.id) =>
                  /\ ~HasTimer(after, n.id)
                  /\ IsAlive(after, n.id)
                  /\ PeerNote(after, n.id).epoch = n.epoch

\* A rebuttal has removed one accusation and left one of its own epoch.
C6_Witness ==
    /\ last.op = "evalNote" /\ last.err = "nil"
    /\ last.pre.accused = 2
    /\ Cardinality(AllAccusations(view, last.id)) = 1
    /\ \A a \in AllAccusations(view, last.id) : a.epoch = PeerNote(view, last.id).epoch

\* C7: every stored note carries a signature of the peer it is stored for.
C7_StoredNotesSigned ==
    \A p \in Peers : PeerNote(view, p) # NoNote => checkNoteSignature(PeerNote(view, p), p)

\* A note with a forged signature for an accused peer has been turned down.
C7_Witness ==
    /\ last.op = "evalNote" /\ last.err = "errInvalidSignature"
    /\ last.pre.accused > 0

\* C8: the epoch of every stored accusation is the epoch of the note stored
\* for the accused.
C8_AccusationEpochIsNoteEpoch ==
    \A p \in Peers : \A a \in AllAccusations(view, p) : a.epoch = PeerNote(view, p).epoch

\* C9: a peer holds at most one accusation per ring.
C9_OneAccusationPerRing ==
    \A p \in Peers : \A a, b \in AllAccusations(view, p) : a.ring = b.ring => a = b

\* evalAccusation has accepted an accusation for a peer that held one on
\* every ring.
C9_Witness ==
    /\ last.op = "evalAccusation" /\ last.err = "nil" /\ last.id \in Peers
    /\ last.pre.accused = NumRings

\* C10 (as stated): an accusation whose accuser is not the immediate
\* predecessor of the accused on its ring is rejected with InvalidAccuser
\* and leaves the view as it was.
C10_NonPredecessorGetsInvalidAccuser ==
    \A a \in Accusations :
        (a.accused \in Peers /\ Mergeable(view, a)
           /\ ~ValidAccuser(view, a.accused, a.accuser, a.ring)) =>
            /\ evalAccusation(view, a).err = "errInvalidAccuser"
            /\ evalAccusation(view, a).v = view

\* C10 (amended): an accusation that is no duplicate, matches the epoch of
\* the accused's note and names an enabled ring, and whose accuser is not
\* the immediate predecessor, is rejected with InvalidAccuser and leaves the
\* view as it was; the earlier checks decide first, and no accusation of a
\* non-predecessor changes the accusations, the note or the live view.
C10_InvalidAccuserRejected ==
    \A a \in Accusations :
        (a.accused \in Peers /\ Mergeable(view, a)
           /\ ~ValidAccuser(view, a.accused, a.accuser, a.ring)) =>
            LET r == evalAccusation(view, a) IN
            /\ r.err # "nil"
            /\ r.v.accs = view.accs /\ r.v.note = view.note /\ r.v.live = view.live
            /\ (/\ ~IsDuplicate(view, a)
                /\ NoteEqual(PeerNote(view, a.accused), a.epoch)
                /\ ~IsRingDisabled(PeerNote(view, a.accused).mask, a.ring)) =>
                   (r.err = "errInvalidAccuser" /\ r.v = view)

\* An accusation has been turned down for its accuser, the accused being live.
C10_Witness ==
    /\ last.op = "evalAccusation" /\ last.err = "errInvalidAccuser"
    /\ last.id \in Peers /\ last.pre.live

\* C11: when evalAccusation accepts (returns no error for) an accusation
\* against a peer that is live, the accusation is stored on its ring and the
\* peer has a timer afterwards; a timer that was already running is kept as
\* it is, not opened anew.
C11_AcceptedAccusationStoredWithTimer ==
    \A a \in Accusations :
        (/\ a.accused # Self
         /\ IsAlive(view, a.accused)
         /\ evalAccusation(view, a).err = "nil")
        => LET w == evalAccusation(view, a).v
               acc == RingAccusation(w, a.accused, a.ring)
           IN /\ acc # NoAcc
              /\ AccEqual(acc, a.accuser, a.ring, a.epoch)
              /\ HasTimer(w, a.accused)
              /\ HasTimer(view, a.accused) => w.timers[a.accused] = view.timers[a.accused]

\* An accusation was accepted against a live peer whose timer was opened
\* under an older note: the second accusation is stored, the timer is the
\* old one.
C11_Witness ==
    /\ last.op = "evalAccusation" /\ last.err = "nil"
    /\ last.pre.live /\ last.pre.timer
    /\ Cardinality(AllAccusations(view, last.id)) = last.pre.accused + 1
    /\ view.timers[last.id].epoch < PeerNote(view, last.id).epoch

\* C12: for a peer of the full view without accusations, evalNote of a
\* correctly signed note with a valid mask and an epoch above the stored
\* note's returns no error, stores the note in place of the old one and
\* leaves the peer in the live view.
C12_NewerNoteStoredAndLive ==
    \A n \in Notes :
        (/\ n.id # Self
         /\ PeerExists(view, n.id)
         /\ AllAccusations(view, n.id) = {}
         /\ checkNoteSignature(n, n.id)
         /\ ValidMask(n.mask)
         /\ n.epoch > PeerNote(view, n.id).epoch)
        => LET r == evalNote(view, n)
           IN /\ r.err = "nil"
              /\ PeerNote(r.v, n.id) = [epoch |-> n.epoch, mask |-> n.mask, signer |-> n.signer]
              /\ IsAlive(r.v, n.id)

\* A stored note of an unaccused peer has been replaced by a newer one.
C12_Witness ==
    /\ last.op = "evalNote" /\ last.err = "nil"
    /\ last.pre.accused = 0 /\ last.pre.epoch >= 1
    /\ PeerNote(view, last.id).epoch > last.pre.epoch
    /\ IsAlive(view, last.id)

\* C14: evalNote returns one of errNoPeer, errOldNote, errInvalidMask,
\* errInvalidSignature or no error; the peer not being in the full view gives
\* errNoPeer, an epoch not above the stored note's gives errOldNote; and
\* whenever it returns an error the view is exactly what it was.
C14_RejectedNoteChangesNothing ==
    \A n \in Notes :
        n.id # Self =>
        LET r == evalNote(view, n)
        IN /\ r.err \in {"nil", "errNoPeer", "errOldNote", "errInvalidMask", "errInvalidSignature"}
           /\ ~PeerExists(view, n.id) => r.err = "errNoPeer"
           /\ (/\ PeerExists(view, n.id)
               /\ PeerNote(view, n.id) # NoNote
               /\ n.epoch <= PeerNote(view, n.id).epoch) => r.err = "errOldNote"
           /\ r.err # "nil" => r.v = view

\* A forged rebuttal of an accused peer has been rejected.
C14_Witness ==
    /\ last.op = "evalNote" /\ last.err = "errInvalidSignature"
    /\ last.pre.accused > 0
    /\ Cardinality(AllAccusations(view, last.id)) = last.pre.accused

\* C15: a gossiped accusation whose accuser is neither in the full view nor
\* the local node, or whose accused is not in the full view, or whose accused
\* has no stored note, is not stored and opens no timer: accusations and
\* timers are what they were.
C15_UnknownPartiesNeverStored ==
    \A a \in Accusations :
        (/\ a.accused # Self
         /\ \/ (a.accuser # Self /\ a.accuser \notin view.full)
            \/ a.accused \notin view.full
            \/ PeerNote(view, a.accused) = NoNote)
        => LET w == mergeAccusation(view, a).v
           IN w.accs = view.accs /\ w.timers = view.timers

\* An accusation against a known peer with a note was skipped because its
\* accuser is not in the view.
C15_Witness ==
    /\ last.op = "evalAccusation" /\ last.err = "skipped"
    /\ last.id # Self /\ PeerExists(view, last.id)
    /\ PeerNote(view, last.id) # NoNote
    /\ view.full # Peers

\* C13: for an accused peer, a note whose epoch is below the epoch of an
\* accusation stored against the peer is no rebuttal and does not replace the
\* stored note: no step puts a note in the peer's record whose epoch is below
\* the epoch of an accusation the record held.
C13_NoteBelowAccusationNotStored ==
    [][\A id \in Peers :
         \A a \in AllAccusations(view, id) :
             PeerNote(view', id) # PeerNote(view, id)
             => PeerNote(view', id).epoch >= a.epoch]_vars

\* C20: the epochs of the notes the local node signs are strictly increasing,
\* and the note a rebuttal signs and sends has an epoch above the epoch of the
\* accusation that triggered it and above every epoch signed before.
C20_SignedEpochsIncrease ==
    /\ \A i, j \in DOMAIN view.signed : i < j => view.signed[i] < view.signed[j]
    /\ \A a \in Accusations :
           (a.accused = Self /\ evalAccusation(view, a).err = "nil")
           => LET w == evalAccusation(view, a).v
                  sent == w.signed[Len(w.signed)]
              IN /\ Len(w.signed) = Len(view.signed) + 1
                 /\ sent > a.epoch
                 /\ \A i \in DOMAIN view.signed : view.signed[i] < sent

\* The local node has answered an accusation with a rebuttal.
C20_Witness ==
    /\ last.op = "evalAccusation" /\ last.id = Self /\ last.err = "nil"
    /\ Len(view.signed) >= 2
    /\ view.signed[Len(view.signed)] = view.selfEpoch

\* C18: with a spam node fabricating accusations against every peer, a
\* correct peer is dropped from the live view only if it is accused on every
\* ring that its mask enables.
C18_DroppedOnlyIfAccusedOnEveryRing ==
    [][\A p \in Peers \ {Spammer} :
         (p \in view.live /\ p \notin view'.live)
         => \A r \in Rings :
                ~IsRingDisabled(PeerNote(view, p).mask, r) => RingAccusation(view, p, r) # NoAcc]_vars

\* C18 (amended): merging a spam node's message leaves the live view alone
\* and stores a fabricated accusation only where the spam node is the
\* accused's predecessor on ring 0, ring 0 is enabled in the accused's mask
\* and the fabricated epoch is the epoch of the note held for the accused;
\* and a peer leaves the live view only when its timer expires while it is
\* accused, on one ring or more.
C18_SpamStoredOnlyFromPredecessor ==
    [][/\ last'.op = "SpamGossip"
          => /\ view'.live = view.live
             /\ \A p \in Peers :
                    \A a \in view'.accs[p] \ view.accs[p] :
                        /\ a.accuser = Spammer /\ a.ring = 0
                        /\ a.epoch = PeerNote(view, p).epoch
                        /\ ~IsRingDisabled(PeerNote(view, p).mask, 0)
                        /\ ValidAccuser(view, p, Spammer, 0)
       /\ \A p \in Peers :
              (p \in view.live /\ p \notin view'.live)
              => /\ last'.op = "Timeout" /\ last'.id = p
                 /\ IsAccused(view, p) /\ HasTimer(view, p)]_vars

\* A correct peer accused by the spam node on ring 0 alone has been dropped
\* from the live view by its timer.
C18_Witness ==
    /\ last.op = "Timeout" /\ last.id # Spammer
    /\ last.pre.live /\ last.id \notin view.live
    /\ \A a \in AllAccusations(view, last.id) : a.accuser = Spammer /\ a.ring = 0
    /\ Cardinality(AllAccusations(view, last.id)) = 1
    /\ RingAccusation(view, last.id, 1) = NoAcc
    /\ ~IsRingDisabled(PeerNote(view, last.id).mask, 1)

\* C19: whatever the interleaving of evalNote and evalAccusation on one peer
\* record, in every state where no call is in progress a peer has a timer
\* only if it has at least one stored accusation.
C19_TimerOnlyForAccusedPeer ==
    Quiescent => \A p \in Peers : HasTimer(view, p) => IsAccused(view, p)

\* C16: a peer that has stopped responding for good is eventually removed
\* from the live view of every surviving node, here of a node that is not its
\* predecessor and learns of the crash by gossip; the peer stays in the full
\* view.
C16_CrashedEventuallyRemoved ==
    /\ <>(Crashed \notin view.live)
    /\ [](Crashed \in view.full)

\* C17: a responsive peer that is accused learns of the accusation and
\* answers with a note of a higher epoch, so that eventually the node that
\* stored the accusation holds no accusation and no timer for the peer and
\* has it in its live view.
C17_AccusedEventuallyCleared ==
    \A y \in Responsive :
        IsAccused(view, y) ~> (~IsAccused(view, y) /\ ~HasTimer(view, y) /\ IsAlive(view, y))

\* C21: no step takes a peer out of the full view; the expiry of a timer
\* changes neither the full view nor the stored accusations, and it removes
\* the peer from the live view only, and only when the peer is still accused
\* and its note has the epoch the timer observed.
C21_FullViewKeepsMembers ==
    [][/\ view.full \subseteq view'.full
       /\ last'.op = "Timeout"
          => /\ view'.full = view.full
             /\ view'.accs = view.accs
             /\ view'.note = view.note
             /\ view'.live \in {view.live, view.live \ {last'.id}}
             /\ view'.live # view.live
                => /\ IsAccused(view, last'.id)
                   /\ PeerNote(view, last'.id).epoch = view.timers[last'.id].epoch]_vars

\* A timer has expired for a peer that is still accused but whose note has
\* moved on since the timer was opened: the peer stays live and in the view.
C21_Witness ==
    /\ last.op = "Timeout" /\ last.pre.live /\ last.pre.accused > 0
    /\ last.id \in view.live /\ last.id \in view.full
    /\ IsAccused(view, last.id) /\ ~HasTimer(view, last.id)

\* C22: an accusation whose accused is the local node is never stored and
\* opens no timer; evalAccusation calls Rebuttal and returns no error exactly
\* when ShouldRebuttal holds for the accusation's epoch and ring, and
\* otherwise returns errInvalidSelfAccusation and changes nothing.
C22_SelfAccusationNeverStored ==
    \A a \in Accusations :
        a.accused = Self =>
        LET r == evalAccusation(view, a)
        IN /\ r.v.accs = view.accs /\ r.v.timers = view.timers
           /\ r.v.full = view.full /\ r.v.live = view.live /\ r.v.note = view.note
           /\ ShouldRebuttal(view, a.epoch, a.ring)
              => /\ r.err = "nil"
                 /\ Len(r.v.signed) = Len(view.signed) + 1
           /\ ~ShouldRebuttal(view, a.epoch, a.ring)
              => /\ r.err = "errInvalidSelfAccusation"
                 /\ r.v = view

\* The local node has turned down an accusation against itself while its
\* view holds peers, notes and an accusation.
C22_Witness ==
    /\ last.op = "evalAccusation" /\ last.id = Self
    /\ last.err = "errInvalidSelfAccusation"
    /\ \E p \in Peers : IsAccused(view, p) /\ HasTimer(view, p)

\* C23: for an accusation that the accused already stores on the same ring
\* with the same accuser and epoch, evalAccusation returns errAccAlreadyExists
\* and leaves everything but the timers as it was; it opens a timer for the
\* accused exactly when the accused is live and has none, and touches no
\* other timer.
C23_DuplicateOnlyOpensTimer ==
    \A a \in Accusations :
        (a.accused # Self /\ IsDuplicate(view, a)) =>
        LET r == evalAccusation(view, a)
        IN /\ r.err = "errAccAlreadyExists"
           /\ [r.v EXCEPT !.timers = view.timers] = view
           /\ \A p \in Peers \ {a.accused} : r.v.timers[p] = view.timers[p]
           /\ IF IsAlive(view, a.accused) /\ ~HasTimer(view, a.accused)
              THEN HasTimer(r.v, a.accused)
              ELSE r.v.timers = view.timers

\* A duplicate has arrived for a peer that was marked dead: it is accused,
\* not live and has no timer, before and after.
C23_Witness ==
    /\ last.op = "evalAccusation" /\ last.err = "errAccAlreadyExists"
    /\ ~last.pre.live /\ ~last.pre.timer /\ last.pre.accused > 0
    /\ ~HasTimer(view, last.id) /\ ~IsAlive(view, last.id)

\* The last step was a call of Spread whose sender was in the view and should
\* not be a neighbour.
SpreadCaseB ==
    /\ last.op = "Spread"
    /\ PeerExists(env.before, env.c.id)
    /\ ~ShouldBeNeighbour(env.before, env.c.id)

\* C24: in Case B of Spread the sender's note is evaluated whatever the
\* outcome; a sender that is accused in the view the call finds gets a reply
\* that holds exactly the accusations stored against it when the call
\* returns, and nothing else; a sender that is not accused gets
\* errNotMyNeighbour and no reply.
C24_ObservedSenderGetsItsAccusations ==
    SpreadCaseB =>
        /\ view = evalNote(env.before, env.n).v
        /\ IF IsAccused(env.before, env.c.id)
           THEN /\ env.err = "nil"
                /\ ~env.reply.nil
                /\ env.reply.certs = {} /\ env.reply.notes = {}
                /\ env.reply.accs = ReplyAccusations(view, {env.c.id})
           ELSE /\ env.err = "errNotMyNeighbour"
                /\ env.reply = NilReply

\* An accused sender outside the neighbourhood was told of its accusation.
C24_Witness ==
    /\ SpreadCaseB
    /\ IsAccused(env.before, env.c.id)
    /\ env.reply.accs # {}
    /\ env.err = "nil"

\* The last step was a call of Spread from a neighbour that carried a map of
\* hosts: the reply is what mergeViews made of the view after the note.
SpreadMerged ==
    /\ last.op = "Spread"
    /\ last.err = "nil"
    /\ ShouldBeNeighbour(env.before, env.c.id)
    /\ env.given # NoHosts

\* C25: the reply of mergeViews carries the certificate of a peer of the full
\* view iff the requester's map does not list the peer, and the peer's note iff
\* the peer has one and the map does not list the peer or the stored epoch is
\* strictly greater than the epoch the map reports for it.
C25_NoteSentIffStoredEpochNewer ==
    SpreadMerged =>
        \A p \in view.full :
            /\ p \in env.reply.certs <=> p \notin DOMAIN env.given
            /\ p \in env.reply.notes <=>
                   /\ PeerNote(view, p) # NoNote
                   /\ \/ p \notin DOMAIN env.given
                      \/ PeerNote(view, p).epoch > env.given[p]

\* C26: the ping counter of a peer never exceeds 3.  It goes up by one, and
\* only in a call of ping to that peer that sent its message and got no pong
\* with a valid signature; it goes back to zero, and only in a call of ping
\* that got such a pong or in an accepted evalNote of the peer; a call of ping
\* that finds the counter at 3 or more returns errDead and changes nothing.
C26_PingCounterBounded ==
    [][\A p \in Peers :
        /\ view'.nping[p] <= 3
        /\ view'.nping[p] > view.nping[p] =>
              /\ last'.op = "ping" /\ last'.id = p
              /\ last'.err \in {"errSend", "errInvalidPongSignature"}
              /\ view.nping[p] < 3
              /\ view'.nping[p] = view.nping[p] + 1
        /\ view'.nping[p] < view.nping[p] =>
              /\ view'.nping[p] = 0
              /\ last'.id = p /\ last'.err = "nil"
              /\ \/ last'.op = "ping"
                 \/ last'.op = "evalNote" /\ last'.pre.accused > 0 /\ ~IsAccused(view', p)
        /\ (last'.op = "ping" /\ last'.id = p) =>
              /\ view.nping[p] >= 3 => last'.err = "errDead" /\ view' = view
              /\ last'.err = "errDead" => view.nping[p] >= 3
              /\ last'.err = "nil" => view'.nping[p] = 0
              /\ last'.err \in {"errSend", "errInvalidPongSignature"} =>
                    view'.nping[p] = view.nping[p] + 1
      ]_vars

\* A peer that left three pings unanswered is refused a fourth one.
C26_Witness ==
    /\ last.op = "ping"
    /\ last.err = "errDead"
    /\ view.nping[last.id] = 3

\* C27: once pinger.shutdown has closed the exit channel, Server.Serve
\* eventually returns, wherever it was and however many pings keep arriving;
\* and from the moment Serve has taken the exit case it stays returned and
\* writes no pong.
C27_ShutdownTerminatesServe ==
    /\ (env.exitChan = "closed") ~> (env.pc = "returned")
    /\ [][env.pc = "returned" => env'.pc = "returned" /\ ~ServeWriteTo]_vars

\* Serve has returned while pings were still waiting in the open socket.
C27_Witness ==
    /\ env.pc = "returned"
    /\ env.exitChan = "closed"
    /\ env.conn = "open"
    /\ env.queue # <<>>
====
